---- MODULE Spec2Model ----
(***************************************************************************)
(* A model of evofr's BlackJax inference handler                           *)
(* (evofr/infer/InferBlackJax.py) and of the seeding / generation-kernel   *)
(* preamble of the renewal model                                           *)
(* (evofr/models/renewal_model/model_factories.py).                        *)
(*                                                                         *)
(* PRNG keys are sequences of naturals: PRNGKey(s) is <<s>> and splitting  *)
(* a key appends the child's index, so distinct derivations are distinct   *)
(* keys.  Sampled values are sequences of integers recording how they were *)
(* derived: a negative integer opens each derivation step (-1 initial      *)
(* position, -2 adaptation, -3 transition step, -4 predictive draw) and is *)
(* followed by the key handed to that step, so a value is a deterministic, *)
(* injective function of the keys and of the value it was derived from.    *)
(***************************************************************************)
EXTENDS Integers, Sequences, FiniteSets, TLC

VARIABLES
    rng_key,      \* rng_key[h]: BlackJaxHandler.rng_key of handler h
    attrs,        \* attrs[h]: the attributes set on handler h
    states,       \* states[h]: BlackJaxHandler.states (meaningful once set)
    log,          \* log[h]: every randomness-consuming call made by handler h
    hist,         \* hist[h]: the methods called on handler h, in order
    lastFit,      \* lastFit[h]: what the last fit call did
    lastPredict,  \* lastPredict[h]: what the last predict call returned
    args,         \* the (model, num_warmup, num_samples) both handlers are given
    probe,        \* the last direct call of _initialize / _predict
    rm            \* the last call of _renewal_model

vars == <<rng_key, attrs, states, log, hist, lastFit, lastPredict, args, probe, rm>>

handlerVars == <<rng_key, attrs, states, log, hist, lastFit, lastPredict, args>>

---------------------------------------------------------------------------
(* Bounds *)

MaxSamples == 2
MaxWarmup == 1
MaxCalls == 3

---------------------------------------------------------------------------
(* Python mappings *)

EmptyMap == [k \in {} |-> <<>>]

\* {**a, **b}: the keys of both, b's value where both have the key
Merge(a, b) ==
    [k \in (DOMAIN a) \cup (DOMAIN b) |-> IF k \in DOMAIN b THEN b[k] ELSE a[k]]

\* the number of draws held by a sample mapping (the leading axis of its arrays)
NumDraws(samples) ==
    IF DOMAIN samples = {} THEN 0
    ELSE Len(samples[CHOOSE k \in DOMAIN samples : TRUE])

---------------------------------------------------------------------------
(* jax.random *)

seed == 100

PRNGKey(s) == <<s>>

\* random.split(key): (new key, subkey)
split(key) == <<Append(key, 0), Append(key, 1)>>

\* random.split(key, num)
splitN(key, num) == [i \in 1..num |-> Append(key, i - 1)]

---------------------------------------------------------------------------
(* Models.  A model is what the resolver inspects: whether it has a        *)
(* `backend` attribute and its value, and, for the PROVIDED backend, which  *)
(* of logdensity_fn_gen / logdensity_fn, initial_position /                 *)
(* initial_position_fn and pred_fn it has.  model_fn has the latent sample  *)
(* sites Sites and the deterministic sites DetSites.                        *)

Sites == {"a", "b"}
DetSites == {"y"}

Backends == {"None", "NUMPYRO", "PROVIDED", "OTHER"}

Model(hb, b, ld, ip, pf, pk) ==
    [hasBackend |-> hb, backend |-> b, logdensity |-> ld,
     initial_position |-> ip, hasPredFn |-> pf, predKeys |-> pk]

Models ==
    { Model(FALSE, "None", "none", "none", FALSE, {}),
      Model(TRUE, "None", "none", "none", FALSE, {}),
      Model(TRUE, "NUMPYRO", "none", "none", FALSE, {}),
      Model(TRUE, "PROVIDED", "gen", "fn", TRUE, {"y"}),
      Model(TRUE, "PROVIDED", "fn", "value", FALSE, {}),
      Model(TRUE, "PROVIDED", "fn", "value", TRUE, {"a", "y"}),
      Model(TRUE, "PROVIDED", "none", "none", FALSE, {}),
      Model(TRUE, "OTHER", "fn", "value", TRUE, {"y"}) }

---------------------------------------------------------------------------
(* BlackJaxNumpyro *)

\* numpyro's Predictive(model, samples)(key, ...): the sample sites absent
\* from `samples` and the deterministic sites, one value per draw
Predictive(key, samples) ==
    [k \in (Sites \ DOMAIN samples) \cup DetSites |->
        [i \in 1..NumDraws(samples) |-> <<-4>> \o key \o <<i>>]]

BlackJaxNumpyro_init(key, model) ==
    LET subkey == split(key)[2]
    IN  [via |-> "numpyro", hasPosition |-> TRUE,
         position |-> [p \in Sites |-> <<-1>> \o subkey],
         logdensity |-> "potential"]

BlackJaxNumpyro_predict(key, model, samples) ==
    LET subkey == split(key)[2]
        samples_pred == Predictive(subkey, samples)
    IN  [via |-> "numpyro", pred |-> samples_pred,
         result |-> Merge(samples, samples_pred)]

---------------------------------------------------------------------------
(* BlackJaxProvided *)

\* model.pred_fn(key, samples, data)
pred_fn(key, model, samples) ==
    [k \in model.predKeys |->
        [i \in 1..NumDraws(samples) |-> <<-4>> \o key \o <<i>>]]

BlackJaxProvided_init(key, model) ==
    [via |-> "provided",
     hasPosition |-> model.initial_position # "none",
     position |->
        IF model.initial_position = "value" THEN [p \in Sites |-> <<-1>>]
        ELSE IF model.initial_position = "fn" THEN [p \in Sites |-> <<-1>> \o key]
        ELSE EmptyMap,
     logdensity |->
        IF model.logdensity = "gen" THEN "generated"
        ELSE IF model.logdensity = "fn" THEN "given"
        ELSE "inert"]

\* a predict that returns the predictive draws alone
BlackJaxProvided_predict_only_pred(key, model, samples) ==
    IF ~model.hasPredFn
    THEN [via |-> "provided", pred |-> EmptyMap, result |-> samples]
    ELSE [via |-> "provided", pred |-> pred_fn(key, model, samples),
          result |-> pred_fn(key, model, samples)]

BlackJaxProvided_predict(key, model, samples) ==
    IF ~model.hasPredFn
    THEN [via |-> "provided", pred |-> EmptyMap, result |-> samples]
    ELSE LET samples_pred == pred_fn(key, model, samples)
         IN  [via |-> "provided", pred |-> samples_pred,
              result |-> Merge(samples, samples_pred)]

---------------------------------------------------------------------------
(* BlackJaxHandler: the resolver *)

_initialize(key, model, backend) ==
    LET b == IF model.hasBackend /\ backend = "None" THEN model.backend ELSE backend
    IN  IF b = "None" THEN BlackJaxNumpyro_init(key, model)
        ELSE IF b = "NUMPYRO" THEN BlackJaxNumpyro_init(key, model)
        ELSE IF b = "PROVIDED" THEN BlackJaxProvided_init(key, model)
        ELSE [via |-> "fallback", hasPosition |-> FALSE, position |-> EmptyMap,
              logdensity |-> "inert"]

\* a _predict without the final numpyro default
_predict_no_default(key, model, samples, backend) ==
    LET b == IF model.hasBackend /\ backend = "None" THEN model.backend ELSE backend
    IN  IF b = "NUMPYRO" THEN BlackJaxNumpyro_predict(key, model, samples)
        ELSE IF b = "PROVIDED" THEN BlackJaxProvided_predict(key, model, samples)
        ELSE [via |-> "fallback", pred |-> EmptyMap, result |-> EmptyMap]

_predict(key, model, samples, backend) ==
    LET b == IF model.hasBackend /\ backend = "None" THEN model.backend ELSE backend
    IN  IF b = "NUMPYRO" THEN BlackJaxNumpyro_predict(key, model, samples)
        ELSE IF b = "PROVIDED" THEN BlackJaxProvided_predict(key, model, samples)
        ELSE IF b = "None" THEN BlackJaxNumpyro_predict(key, model, samples)
        ELSE [via |-> "fallback", pred |-> EmptyMap, result |-> EmptyMap]

---------------------------------------------------------------------------
(* BlackJaxHandler *)

Handlers == {1, 2}

NoState == [position |-> EmptyMap]

NoStates == [isNone |-> FALSE, position |-> EmptyMap]

\* a constructor that seeds every instance differently
BlackJaxHandler_init_per_instance(self) ==
    [rng_key |-> PRNGKey(seed + self),
     attrs |-> {"kernel_fn", "kernel_kwargs", "seed", "rng_key", "state"}]

\* __init__: the attributes it sets (self.state, not self.states) and the key
BlackJaxHandler_init(self) ==
    [rng_key |-> PRNGKey(seed),
     attrs |-> {"kernel_fn", "kernel_kwargs", "seed", "rng_key", "state"}]

\* kernel(rng_key, state): the transition of the sampler, a deterministic
\* function of its key and of the state it starts from
kernel(key, state) ==
    [position |-> [p \in DOMAIN state.position |-> <<-3>> \o key \o state.position[p]]]

\* one_step(state, rng_key) of inference_loop, with the state it started from
one_step(state, key) ==
    [key |-> key, from |-> state, to |-> kernel(key, state)]

\* a scan that forgets the carry: every step restarts from the initial state
scan_restart(carry, keys) ==
    [i \in 1..Len(keys) |-> one_step(carry, keys[i])]

\* jax.lax.scan(one_step, carry, keys): the records of the steps, in order
RECURSIVE scan(_, _)
scan(carry, keys) ==
    IF keys = <<>> THEN <<>>
    ELSE LET r == one_step(carry, Head(keys))
         IN  <<r>> \o scan(r.to, Tail(keys))

\* the stacked states lax.scan returns: every leaf gets a leading draw axis
Stack(sites, collected) ==
    [isNone |-> FALSE,
     position |-> [p \in sites |->
                     [i \in 1..Len(collected) |-> collected[i].position[p]]]]

\* random.split(rng_key, num_samples) raises for a negative count
inference_loop(key, initial_state, num_samples) ==
    IF num_samples < 0
    THEN [raised |-> TRUE, steps |-> <<>>, states |-> NoStates]
    ELSE LET keys == splitN(key, num_samples)
             steps == scan(initial_state, keys)
         IN  [raised |-> FALSE, steps |-> steps,
              states |-> Stack(DOMAIN initial_state.position,
                               [i \in 1..Len(steps) |-> steps[i].to])]

\* blackjax cannot build a state from no position or from a log-density
\* that returns None: kernel.init / adapt.run raise there
Degenerate(init) == ~init.hasPosition \/ init.logdensity = "inert"

run_warmup(key0, init, num_warmup) ==
    LET n == IF num_warmup < 1 THEN 1 ELSE num_warmup
        s == split(key0)
    IN  [rng_key |-> s[1], key |-> s[2], raised |-> Degenerate(init),
         last_state |->
            IF Degenerate(init) THEN NoState
            ELSE [position |-> [p \in DOMAIN init.position |->
                                  <<-2, n>> \o s[2] \o init.position[p]]]]

Call(name, key, before, after) ==
    [call |-> name, key |-> key, before |-> before, after |-> after]

\* fit(model, data, num_warmup, num_samples) on a handler with the given
\* rng_key, attrs and states: the handler's fields afterwards, and what ran
fit(self, model, num_warmup, num_samples) ==
    LET s1 == split(self.rng_key)
        init == _initialize(s1[2], model, "None")
        c1 == Call("init", s1[2], self.rng_key, s1[1])
        warm == num_warmup > 0
        w == run_warmup(s1[1], init, num_warmup)
        rng2 == IF warm THEN w.rng_key ELSE s1[1]
        calls2 == IF warm THEN <<c1, Call("warmup", w.key, s1[1], w.rng_key)>>
                  ELSE <<c1>>
        startRaised == IF warm THEN w.raised ELSE Degenerate(init)
        start == IF startRaised THEN NoState
                 ELSE IF warm THEN w.last_state
                 ELSE [position |-> init.position]
        s3 == split(rng2)
        loop == inference_loop(s3[2], start, num_samples)
        calls3 == Append(calls2, Call("loop", s3[2], rng2, s3[1]))
    IN  IF startRaised
        THEN [rng_key |-> rng2, attrs |-> self.attrs, states |-> self.states,
              outcome |-> "raised by blackjax", calls |-> calls2,
              ranWarmup |-> warm, start |-> NoState, steps |-> <<>>]
        ELSE IF loop.raised
        THEN [rng_key |-> s3[1], attrs |-> self.attrs, states |-> self.states,
              outcome |-> "raised by random.split", calls |-> calls3,
              ranWarmup |-> warm, start |-> start, steps |-> <<>>]
        ELSE [rng_key |-> s3[1], attrs |-> self.attrs \cup {"states", "infos"},
              states |-> loop.states,
              outcome |-> "ok", calls |-> calls3,
              ranWarmup |-> warm, start |-> start, steps |-> loop.steps]

\* the samples property
samples(self) ==
    IF "states" \notin self.attrs
    THEN [raised |-> TRUE, value |-> EmptyMap]
    ELSE IF ~self.states.isNone
    THEN [raised |-> FALSE, value |-> self.states.position]
    ELSE [raised |-> FALSE, value |-> EmptyMap]

\* predict(model, data)
predict(self, model) ==
    LET s == samples(self)
        r == _predict(self.rng_key, model, s.value, "None")
    IN  IF s.raised
        THEN [rng_key |-> self.rng_key, outcome |-> "AttributeError",
              calls |-> <<>>, samples |-> EmptyMap, result |-> EmptyMap]
        ELSE [rng_key |-> self.rng_key, outcome |-> "ok",
              calls |-> <<Call("predict", self.rng_key, self.rng_key, self.rng_key)>>,
              samples |-> s.value, result |-> r.result]

Self(h) == [rng_key |-> rng_key[h], attrs |-> attrs[h], states |-> states[h]]

NoFit ==
    [called |-> FALSE, outcome |-> "none", ranWarmup |-> FALSE, start |-> NoState,
     steps |-> <<>>, calls |-> <<>>, statesBefore |-> NoStates,
     hadStates |-> FALSE]

NoPredict ==
    [called |-> FALSE, outcome |-> "none", samples |-> EmptyMap,
     result |-> EmptyMap, keyBefore |-> <<>>]

\* handler 2 is the second orchestrator of a reproducibility run: it is
\* given the calls handler 1 was given, in the same order
MayCall(h, op) ==
    /\ Len(hist[h]) < MaxCalls
    /\ h = 2 => /\ Len(hist[2]) < Len(hist[1])
                /\ hist[1][Len(hist[2]) + 1] = op

InitHandlers ==
    /\ rng_key = [h \in Handlers |-> BlackJaxHandler_init(h).rng_key]
    /\ attrs = [h \in Handlers |-> BlackJaxHandler_init(h).attrs]
    /\ states = [h \in Handlers |-> NoStates]
    /\ log = [h \in Handlers |-> <<>>]
    /\ hist = [h \in Handlers |-> <<>>]
    /\ lastFit = [h \in Handlers |-> NoFit]
    /\ lastPredict = [h \in Handlers |-> NoPredict]

NoProbe ==
    [kind |-> "none", model |-> Model(FALSE, "None", "none", "none", FALSE, {}),
     backend |-> "None", samples |-> EmptyMap, via |-> "none",
     otherVia |-> "none", hasPosition |-> FALSE, logdensity |-> "none",
     pred |-> EmptyMap, result |-> EmptyMap]

NoRenewal == [called |-> FALSE]

Init ==
    /\ InitHandlers
    /\ args \in [model : Models, num_warmup : 0..MaxWarmup,
                 num_samples : (0 - 1)..MaxSamples]
    /\ probe = NoProbe
    /\ rm = NoRenewal

Fit(h) ==
    /\ MayCall(h, "fit")
    /\ LET r == fit(Self(h), args.model, args.num_warmup, args.num_samples)
       IN  /\ rng_key' = [rng_key EXCEPT ![h] = r.rng_key]
           /\ attrs' = [attrs EXCEPT ![h] = r.attrs]
           /\ states' = [states EXCEPT ![h] = r.states]
           /\ log' = [log EXCEPT ![h] = @ \o r.calls]
           /\ lastFit' = [lastFit EXCEPT ![h] =
                 [called |-> TRUE, outcome |-> r.outcome,
                  ranWarmup |-> r.ranWarmup, start |-> r.start,
                  steps |-> r.steps, calls |-> r.calls,
                  statesBefore |-> states[h],
                  hadStates |-> "states" \in attrs[h]]]
    /\ hist' = [hist EXCEPT ![h] = Append(@, "fit")]
    /\ UNCHANGED <<lastPredict, args, probe, rm>>

Predict(h) ==
    /\ MayCall(h, "predict")
    /\ LET r == predict(Self(h), args.model)
       IN  /\ rng_key' = [rng_key EXCEPT ![h] = r.rng_key]
           /\ log' = [log EXCEPT ![h] = @ \o r.calls]
           /\ lastPredict' = [lastPredict EXCEPT ![h] =
                 [called |-> TRUE, outcome |-> r.outcome, samples |-> r.samples,
                  result |-> r.result, keyBefore |-> rng_key[h]]]
    /\ hist' = [hist EXCEPT ![h] = Append(@, "predict")]
    /\ UNCHANGED <<attrs, states, lastFit, args, probe, rm>>

Next == \E h \in Handlers : Fit(h) \/ Predict(h)

Spec == Init /\ [][Next]_vars

---------------------------------------------------------------------------
(* Direct calls of the static resolver methods, with an explicit backend *)

ProbeKeys == {PRNGKey(seed), split(PRNGKey(seed))[2]}

SampleKeys == {"a", "b", "y"}

\* sample mappings of one draw over some of the keys, and the empty mapping
SampleInputs ==
    {[k \in S |-> << <<7>> >>] : S \in SUBSET SampleKeys}

DefaultArgs ==
    [model |-> Model(FALSE, "None", "none", "none", FALSE, {}),
     num_warmup |-> 0, num_samples |-> 0]

InitResolver ==
    /\ InitHandlers
    /\ args = DefaultArgs
    /\ probe = NoProbe
    /\ rm = NoRenewal

CallInitialize ==
    /\ \E key \in ProbeKeys, m \in Models, b \in Backends :
          LET r == _initialize(key, m, b)
          IN  probe' = [kind |-> "init", model |-> m, backend |-> b,
                        samples |-> EmptyMap, via |-> r.via,
                        otherVia |-> _predict(key, m, EmptyMap, b).via,
                        hasPosition |-> r.hasPosition,
                        logdensity |-> r.logdensity,
                        pred |-> EmptyMap, result |-> EmptyMap]
    /\ UNCHANGED <<handlerVars, rm>>

CallPredict ==
    /\ \E key \in ProbeKeys, m \in Models, b \in Backends, s \in SampleInputs :
          LET r == _predict(key, m, s, b)
          IN  probe' = [kind |-> "predict", model |-> m, backend |-> b,
                        samples |-> s, via |-> r.via,
                        otherVia |-> _initialize(key, m, b).via,
                        hasPosition |-> FALSE, logdensity |-> "none",
                        pred |-> r.pred, result |-> r.result]
    /\ UNCHANGED <<handlerVars, rm>>

NextResolver == CallInitialize \/ CallPredict

SpecResolver == InitResolver /\ [][NextResolver]_vars

---------------------------------------------------------------------------
(* _renewal_model: the generation-kernel matching and the seeding window.  *)
(* Days and timeline indices count from 0, as in the code; variants are    *)
(* numbered 1..N_variant.  A sequence count is missing (NaN) or a number.  *)

MaxT == 2
MaxSeedL == 2
MaxForecastL == 1

NaN == [valid |-> FALSE, val |-> 0]
Count(n) == [valid |-> TRUE, val |-> n]
Counts == {NaN, Count(0), Count(1)}

VarNameOrders == {<<"A", "B">>, <<"B", "A">>}

\* g_rev with its ndim and its rows (a 1-d kernel is the one row 0), and
\* gen_v_names (None, or the names of the rows in row order)
SharedKernel == [ndim |-> 1, rows |-> <<0>>, hasNames |-> FALSE, names |-> <<>>]
RowKernel(names) ==
    [ndim |-> 2, rows |-> [i \in 1..Len(names) |-> i - 1], hasNames |-> TRUE,
     names |-> names]
UnnamedRowKernel ==
    [ndim |-> 2, rows |-> <<0, 1>>, hasNames |-> FALSE, names |-> <<>>]
KernelInputs ==
    {SharedKernel, UnnamedRowKernel, RowKernel(<<"A", "B">>),
     RowKernel(<<"B", "A">>), RowKernel(<<"C", "B", "A">>),
     RowKernel(<<"A", "C">>)}

\* the draws of the logI0 site (before the scaling by 3.0), per variant
LogI0Draws == {<<0, 1>>, <<1, 1>>}

\* jnp.exp(x) for the scaled draws x = 3 * logI0, to base 2: positive, increasing
exp(x) == 2 ^ x

\* list.index(s): the first position (from 0) of s; ValueError when absent
HasName(names, s) == \E j \in 1..Len(names) : names[j] = s
index(names, s) ==
    (CHOOSE j \in 1..Len(names) :
        names[j] = s /\ \A k \in 1..(j - 1) : names[k] # s) - 1

\* a matching that takes the rows in the kernel's own order
MatchKernel_positional(g, var_names) ==
    IF g.ndim = 1
    THEN [raised |-> FALSE, gmap_dim |-> "None", g_rev |-> g.rows]
    ELSE [raised |-> FALSE, gmap_dim |-> "0", g_rev |-> g.rows]

\* gmap_dim and the kernel rows handed to the simulator
MatchKernel(g, var_names) ==
    IF g.ndim = 1
    THEN [raised |-> FALSE, gmap_dim |-> "None", g_rev |-> g.rows]
    ELSE IF ~g.hasNames
    THEN [raised |-> FALSE, gmap_dim |-> "0", g_rev |-> g.rows]
    ELSE IF \E i \in 1..Len(var_names) : ~HasName(g.names, var_names[i])
    THEN [raised |-> TRUE, gmap_dim |-> "0", g_rev |-> <<>>]
    ELSE LET v_idx == [i \in 1..Len(var_names) |-> index(g.names, var_names[i])]
         IN  [raised |-> FALSE, gmap_dim |-> "0",
              g_rev |-> [i \in 1..Len(v_idx) |-> g.rows[v_idx[i] + 1]]]

\* no masking of the invalid entries
masked_invalid_nomask(x) == [mask |-> FALSE, data |-> x]

\* np.ma.masked_invalid: the entry with its mask
masked_invalid(x) == [mask |-> ~x.valid, data |-> x]

\* masked != 0; NaN != 0 is True where the data is looked at
NotEqualZero(m) ==
    [mask |-> m.mask, data |-> IF m.data.valid THEN m.data.val # 0 ELSE TRUE]

\* MaskedArray.argmax fills the masked entries with the minimum (False)
filled(m) == IF m.mask THEN FALSE ELSE m.data

\* argmax along axis 0 of a boolean column over days 0..T-1: the first True,
\* day 0 when there is none
argmax(col, T) ==
    IF \E t \in 0..(T - 1) : col[t]
    THEN CHOOSE t \in 0..(T - 1) : col[t] /\ \A u \in 0..(t - 1) : ~col[u]
    ELSE 0

first_obs(seq_counts, T, N_variant) ==
    [v \in 1..N_variant |->
        argmax([t \in 0..(T - 1) |->
                  filled(NotEqualZero(masked_invalid(seq_counts[t][v])))], T)]

\* a window that starts one index later
intro_dates_shifted(fo, N_variant, seed_L) ==
    [j \in 1..(N_variant * seed_L) |->
        fo[((j - 1) % N_variant) + 1] + ((j - 1) \div N_variant) + 1]

\* np.concatenate([first_obs + d for d in np.arange(0, seed_L)])
intro_dates(fo, N_variant, seed_L) ==
    [j \in 1..(N_variant * seed_L) |->
        fo[((j - 1) % N_variant) + 1] + ((j - 1) \div N_variant)]

\* np.tile(x, seed_L) of a per-variant vector
tile(x, N_variant, seed_L) ==
    [j \in 1..(N_variant * seed_L) |-> x[((j - 1) % N_variant) + 1]]

\* jnp.zeros((T + seed_L + forecast_L, N_variant)).at[intro_idx].set(values)
intros(dates, cols, values, length, N_variant) ==
    [i \in 0..(length - 1) |->
        [v \in 1..N_variant |->
            IF \E j \in DOMAIN dates : dates[j] = i /\ cols[j] = v
            THEN values[CHOOSE j \in DOMAIN dates : dates[j] = i /\ cols[j] = v]
            ELSE 0]]

_renewal_model(seq_counts, T, var_names, g, seed_L, forecast_L, logI0) ==
    LET k == MatchKernel(g, var_names)
        N_variant == Len(var_names)
        fo == first_obs(seq_counts, T, N_variant)
        dates == intro_dates(fo, N_variant, seed_L)
        cols == tile([v \in 1..N_variant |-> v], N_variant, seed_L)
        I0 == [v \in 1..N_variant |-> exp(3 * logI0[v])]
        length == T + seed_L + forecast_L
    IN  IF k.raised
        THEN [called |-> TRUE, raised |-> TRUE, error |-> "ValueError",
              seq_counts |-> seq_counts, T |-> T, var_names |-> var_names,
              kernel |-> g, seed_L |-> seed_L, forecast_L |-> forecast_L,
              logI0 |-> logI0, gmap_dim |-> k.gmap_dim, g_rev |-> <<>>,
              first_obs |-> <<>>, intros |-> <<>>]
        ELSE [called |-> TRUE, raised |-> FALSE, error |-> "none",
              seq_counts |-> seq_counts, T |-> T, var_names |-> var_names,
              kernel |-> g, seed_L |-> seed_L, forecast_L |-> forecast_L,
              logI0 |-> logI0, gmap_dim |-> k.gmap_dim, g_rev |-> k.g_rev,
              first_obs |-> fo,
              intros |-> intros(dates, cols, tile(I0, N_variant, seed_L),
                                length, N_variant)]

\* the arguments of one call, before it is made
RenewalInputs ==
    UNION {
      [called : {FALSE}, T : {T}, var_names : {var_names}, kernel : KernelInputs,
       seed_L : 1..MaxSeedL, forecast_L : 0..MaxForecastL, logI0 : LogI0Draws,
       seq_counts : [0..(T - 1) -> [1..Len(var_names) -> Counts]]] :
      T \in 1..MaxT, var_names \in VarNameOrders }

InitRenewal ==
    /\ InitHandlers
    /\ args = DefaultArgs
    /\ probe = NoProbe
    /\ rm \in RenewalInputs

CallRenewalModel ==
    /\ ~rm.called
    /\ rm' = _renewal_model(rm.seq_counts, rm.T, rm.var_names, rm.kernel,
                            rm.seed_L, rm.forecast_L, rm.logI0)
    /\ UNCHANGED <<handlerVars, probe>>

NextRenewal == CallRenewalModel

SpecRenewal == InitRenewal /\ [][NextRenewal]_vars

---------------------------------------------------------------------------
(* Properties of BlackJaxHandler.fit / predict (specification Spec) *)

LoopCall(f) == f.calls[Len(f.calls)]

\* C1: a fit with num_samples >= 0 that gets past initialisation/warmup runs
\* exactly num_samples transition steps; step i is handed the i-th key split
\* from the loop's key (all distinct); step 1 starts from the starting state
\* and step i from the state step i-1 produced; and the stacked states hold
\* the state produced by step i at draw index i.
C1_SequentialSteps ==
    \A h \in Handlers :
        LET f == lastFit[h]
            n == args.num_samples
        IN  (f.called /\ n >= 0 /\ f.outcome # "raised by blackjax") =>
                /\ f.outcome = "ok"
                /\ Len(f.steps) = n
                /\ LoopCall(f).call = "loop"
                /\ \A i \in 1..n : f.steps[i].key = splitN(LoopCall(f).key, n)[i]
                /\ \A i, j \in 1..n : i # j => f.steps[i].key # f.steps[j].key
                /\ \A i \in 1..n :
                      /\ f.steps[i].from =
                            IF i = 1 THEN f.start ELSE f.steps[i - 1].to
                      /\ f.steps[i].to = kernel(f.steps[i].key, f.steps[i].from)
                /\ "states" \in attrs[h]
                /\ DOMAIN states[h].position = DOMAIN f.start.position
                /\ \A p \in DOMAIN f.start.position :
                      /\ Len(states[h].position[p]) = n
                      /\ \A i \in 1..n :
                            states[h].position[p][i] = f.steps[i].to.position[p]

C1_Witness ==
    \E h \in Handlers :
        /\ lastFit[h].outcome = "ok"
        /\ Len(lastFit[h].steps) >= 2
        /\ lastFit[h].steps[2].from = lastFit[h].steps[1].to
        /\ lastFit[h].ranWarmup

\* C2: every randomness-consuming call (init, warmup, the sampling loop,
\* predict) is handed the sub-key of a split of the stored rng_key, the stored
\* rng_key becomes the other half of that split, the calls chain (each starts
\* from the key the previous one left), and no call is handed the stored key.
C2_EveryCallSplitsStoredKey ==
    \A h \in Handlers :
        /\ \A i \in DOMAIN log[h] :
              LET c == log[h][i]
              IN  /\ c.key = split(c.before)[2]
                  /\ c.after = split(c.before)[1]
                  /\ c.after # c.before
                  /\ c.key # c.before
        /\ \A i \in 1..(Len(log[h]) - 1) : log[h][i + 1].before = log[h][i].after
        /\ (hist[h] # <<>> /\ hist[h][Len(hist[h])] = "predict"
                /\ lastPredict[h].outcome = "ok") =>
              rng_key[h] # lastPredict[h].keyBefore

\* C4: a handler that has collected no sampling state (never fitted, or
\* fitted with num_samples = 0) returns the empty mapping from `samples`
\* and does not raise.
C4_SamplesEmptyWithoutStates ==
    \A h \in Handlers :
        ("states" \notin attrs[h]
            \/ (lastFit[h].outcome = "ok" /\ args.num_samples = 0)) =>
                /\ ~samples(Self(h)).raised
                /\ samples(Self(h)).value = EmptyMap

\* C5: fit with num_samples < 0 fails with a ConfigurationError before any
\* warmup or sampling step runs and leaves the collected states as they were;
\* fit with num_warmup = 0 and num_samples >= 0 (on a model the sampler can
\* start from) does not fail and runs no adaptation.
C5_NegativeSamplesRejectedFirst ==
    \A h \in Handlers :
        LET f == lastFit[h]
        IN  f.called =>
              /\ args.num_samples < 0 =>
                    /\ f.outcome = "ConfigurationError"
                    /\ \A i \in DOMAIN f.calls :
                          f.calls[i].call \notin {"warmup", "loop"}
                    /\ f.steps = <<>>
                    /\ states[h] = f.statesBefore
                    /\ ("states" \in attrs[h]) = f.hadStates
              /\ (/\ args.num_warmup = 0
                  /\ args.num_samples >= 0
                  /\ ~Degenerate(_initialize(<<>>, args.model, "None"))) =>
                    /\ f.outcome = "ok"
                    /\ ~f.ranWarmup

---------------------------------------------------------------------------
(* Properties of the resolver (specification SpecResolver) *)

\* the backend value the first-match order settles on
Chosen(model, backend) ==
    IF backend # "None" THEN backend
    ELSE IF model.hasBackend THEN model.backend
    ELSE "None"

\* C3 as stated: whatever the backend resolution, every key of `samples` is
\* in the mapping _predict returns, with the value it has in `samples`.
C3_PredictKeepsEverySample ==
    probe.kind = "predict" =>
        \A k \in DOMAIN probe.samples :
            /\ k \in DOMAIN probe.result
            /\ probe.result[k] = probe.samples[k]

\* C3 amended: when the backend resolves to a strategy, the result has exactly
\* the keys of `samples` and of the predictive draws, a key of `samples` keeps
\* its value unless the predictive draws hold the same key, whose value then
\* replaces it; with an unrecognised backend the result is the empty mapping.
C3_PredictExtendsUnlessFallback ==
    probe.kind = "predict" =>
        IF probe.via = "fallback"
        THEN probe.result = EmptyMap
        ELSE /\ DOMAIN probe.result = (DOMAIN probe.samples) \cup (DOMAIN probe.pred)
             /\ \A k \in DOMAIN probe.samples :
                   probe.result[k] =
                      IF k \in DOMAIN probe.pred THEN probe.pred[k]
                      ELSE probe.samples[k]

C3_Witness ==
    /\ probe.kind = "predict"
    /\ probe.via = "provided"
    /\ probe.model.hasPredFn
    /\ DOMAIN probe.samples = {"a", "b"}
    /\ DOMAIN probe.result = {"a", "b", "y"}
    /\ probe.result["b"] = probe.samples["b"]

\* C9: _initialize and _predict resolve the same strategy, by the order
\* explicit backend, else the model's declared backend, else numpyro when
\* none is declared; only a backend value that is neither NUMPYRO nor
\* PROVIDED gives the fallback, which returns no position and an inert
\* log-density from _initialize and the empty mapping from _predict.
C9_SameResolution ==
    probe.kind # "none" =>
        LET c == Chosen(probe.model, probe.backend)
        IN  /\ probe.otherVia = probe.via
            /\ c \in {"None", "NUMPYRO"} => probe.via = "numpyro"
            /\ c = "PROVIDED" => probe.via = "provided"
            /\ c \notin {"None", "NUMPYRO", "PROVIDED"} => probe.via = "fallback"
            /\ (probe.via = "fallback" /\ probe.kind = "init") =>
                  ~probe.hasPosition /\ probe.logdensity = "inert"
            /\ (probe.via = "fallback" /\ probe.kind = "predict") =>
                  probe.result = EmptyMap

C9_Witness ==
    /\ probe.kind = "predict"
    /\ probe.backend = "None"
    /\ ~probe.model.hasBackend
    /\ probe.via = "numpyro"
    /\ probe.otherVia = "numpyro"
    /\ probe.samples # EmptyMap

---------------------------------------------------------------------------
(* Properties of _renewal_model (specification SpecRenewal) *)

Simulated == rm.called /\ ~rm.raised

\* the timeline indices at which variant v's introductions are nonzero
Window(v) == {i \in DOMAIN rm.intros : rm.intros[i][v] # 0}

Detected(v, t) == rm.seq_counts[t][v].valid /\ rm.seq_counts[t][v].val # 0

EverDetected(v) == \E t \in 0..(rm.T - 1) : Detected(v, t)

\* C7 as stated: the seeding window of every variant is the seed_L indices
\* ending at the index seed_L + first_obs of its first-detection day, all
\* with the magnitude exp(3 * logI0), inside the timeline.
C7_WindowEndsAtDetection ==
    Simulated =>
        \A v \in 1..Len(rm.var_names) :
            /\ Window(v) = (rm.first_obs[v] + 1)..(rm.first_obs[v] + rm.seed_L)
            /\ \A i \in Window(v) : rm.intros[i][v] = exp(3 * rm.logI0[v])
            /\ Window(v) \subseteq 0..(rm.T + rm.seed_L + rm.forecast_L - 1)

\* C7 amended: the seeding window of every variant is the seed_L consecutive
\* indices first_obs .. first_obs + seed_L - 1, so it ends at the index just
\* before that of the first-detection day (observed days first_obs - seed_L ..
\* first_obs - 1); all carry the magnitude exp(3 * logI0) and lie inside the
\* timeline of length seed_L + T + forecast_L.
C7_WindowEndsBeforeDetection ==
    Simulated =>
        /\ DOMAIN rm.intros = 0..(rm.T + rm.seed_L + rm.forecast_L - 1)
        /\ \A v \in 1..Len(rm.var_names) :
              /\ Window(v) = rm.first_obs[v]..(rm.first_obs[v] + rm.seed_L - 1)
              /\ Cardinality(Window(v)) = rm.seed_L
              /\ (rm.seed_L + rm.first_obs[v]) \notin Window(v)
              /\ \A i \in Window(v) : rm.intros[i][v] = exp(3 * rm.logI0[v])
              /\ Window(v) \subseteq 0..(rm.T + rm.seed_L + rm.forecast_L - 1)

C7_Witness ==
    /\ Simulated
    /\ rm.seed_L = 2
    /\ rm.forecast_L = 0
    /\ rm.first_obs[1] = rm.T - 1
    /\ rm.first_obs[1] > 0
    /\ Window(1) = {rm.T - 1, rm.T}

\* C8 as stated: the first-detection day of a variant is the earliest day on
\* which its count is non-missing and nonzero, and a day on which its count is
\* missing is never the first-detection day.
C8_NeverAMissingDay ==
    Simulated =>
        \A v \in 1..Len(rm.var_names) :
            /\ EverDetected(v) =>
                  /\ Detected(v, rm.first_obs[v])
                  /\ \A u \in 0..(rm.first_obs[v] - 1) : ~Detected(v, u)
            /\ rm.seq_counts[rm.first_obs[v]][v].valid

\* C8 amended: for a variant with at least one non-missing nonzero count the
\* first-detection day is the earliest such day (so never a missing one); for
\* a variant with none it is day 0, whether or not day 0's count is missing.
C8_EarliestDetectionOrDayZero ==
    Simulated =>
        \A v \in 1..Len(rm.var_names) :
            IF EverDetected(v)
            THEN /\ Detected(v, rm.first_obs[v])
                 /\ \A u \in 0..(rm.first_obs[v] - 1) : ~Detected(v, u)
            ELSE rm.first_obs[v] = 0

C8_Witness ==
    /\ Simulated
    /\ rm.T = 2
    /\ rm.seq_counts[0][2] = NaN
    /\ rm.seq_counts[1][2] = Count(1)
    /\ rm.first_obs[2] = 1

====
